---------------------------- MODULE Spec2Model ----------------------------
(***************************************************************************)
(* cachestore: the adapter of src/cache_store.go over the expiring cache   *)
(* engine github.com/patrickmn/go-cache v2.1.0.                            *)
(*                                                                         *)
(* Keys are byte sequences (tuples of small naturals).  A []byte value is  *)
(* a record [isNil, bytes]: Go tells a nil slice from an empty one.  The   *)
(* clock `now` counts ticks, TicksPerSecond of them to a second; the       *)
(* engine's expirations are absolute instants of that clock, 0 for none.   *)
(***************************************************************************)
EXTENDS Integers, Sequences, FiniteSets, TLC

VARIABLES
    items,      \* cacheStore.cache: the engine's map, key -> Item
    now,        \* time.Now(), in ticks
    last,       \* the call that has just been made and what it returned
    written,    \* per key: the last Set of it, while nothing has written it since
    run,        \* per key: what the Increments by 1 from 0 returned, since it was fresh
    stream,     \* what Backup wrote to its io.Writer
    restored,   \* the map of a second, fresh store that Restore loads
    pc,         \* per concurrent caller: where it stands in its call
    loc         \* per concurrent caller: the locals of its call

vars == <<items, now, last, written, run, stream, restored, pc, loc>>

----------------------------------------------------------------------------
(* Bounds of the model *)

MaxTime == 3
TicksPerSecond == 2
MaxCount == 3

(* Program constants *)

NoExpiration == -1
DefaultExpiration == 0
NoTTL == 0

----------------------------------------------------------------------------
(* Bytes, keys, values *)

Keys == { <<1>>, <<1, 2>>, <<2>> }
KVKeys == { <<1>>, <<1, 2>> }

NilBytes == [isNil |-> TRUE, bytes |-> <<>>]
Bytes(s) == [isNil |-> FALSE, bytes |-> s]
Len8(v) == Len(v.bytes)

\* strings.HasPrefix(key, prefix)
HasPrefix(key, prefix) ==
    /\ Len(key) >= Len(prefix)
    /\ \A i \in 1..Len(prefix) : key[i] = prefix[i]

\* Go's key >= seek on strings: byte-wise lexicographic order
RECURSIVE StrLess(_, _)
StrLess(a, b) ==
    IF b = <<>> THEN FALSE
    ELSE IF a = <<>> THEN TRUE
    ELSE IF a[1] < b[1] THEN TRUE
    ELSE IF a[1] > b[1] THEN FALSE
    ELSE StrLess(Tail(a), Tail(b))

StrGeq(a, b) == ~StrLess(a, b)

----------------------------------------------------------------------------
(* 64-bit integers: four 16-bit limbs, the most significant first.  int64   *)
(* and uint64 share the limbs (two's complement), as Go's conversions do.   *)

Limb == 256 * 256

\* the int64 of a small integer n, -Limb < n < Limb
Int64(n) == IF n >= 0 THEN <<0, 0, 0, n>> ELSE <<Limb - 1, Limb - 1, Limb - 1, Limb + n>>

\* x + y on int64, wrapping
AddInt64(x, y) ==
    LET s4 == x[4] + y[4]
        s3 == x[3] + y[3] + (s4 \div Limb)
        s2 == x[2] + y[2] + (s3 \div Limb)
        s1 == x[1] + y[1] + (s2 \div Limb)
    IN  <<s1 % Limb, s2 % Limb, s3 % Limb, s4 % Limb>>

\* binary.BigEndian.Uint64(b): the first 8 bytes of b
BigEndianUint64(b) == [i \in 1..4 |-> b[2 * i - 1] * 256 + b[2 * i]]

\* binary.BigEndian.PutUint64 into make([]byte, 8)
PutUint64(x) ==
    [i \in 1..8 |-> IF i % 2 = 1 THEN x[(i + 1) \div 2] \div 256
                                 ELSE x[i \div 2] % 256]

----------------------------------------------------------------------------
(* The engine: go-cache's Cache over a map of Items *)

Item(x, e) == [Object |-> x, Expiration |-> e]

\* Item.Expired, at instant t
Expired(item, t) == item.Expiration > 0 /\ t > item.Expiration

\* time.Second * time.Duration(ttlSeconds)
Seconds(n) == TicksPerSecond * n

\* the expiration the factory configures the engine with
defaultExpiration == NoExpiration

\* Cache.Set(k, x, d) at instant t
cacheSet(c, k, x, d, t) ==
    LET dd == IF d = DefaultExpiration THEN defaultExpiration ELSE d
        e  == IF dd > 0 THEN t + dd ELSE 0
    IN  [kk \in (DOMAIN c) \cup {k} |-> IF kk = k THEN Item(x, e) ELSE c[kk]]

\* Cache.Get(k) at instant t
cacheGet(c, k, t) ==
    IF k \in DOMAIN c /\ ~Expired(c[k], t)
    THEN [obj |-> c[k].Object, found |-> TRUE]
    ELSE [obj |-> NilBytes, found |-> FALSE]

\* Cache.Delete(k)
cacheDelete(c, k) == [kk \in (DOMAIN c) \ {k} |-> c[kk]]

\* Cache.Items() at instant t: a copy of the unexpired items
cacheItems(c, t) == [kk \in {k \in DOMAIN c : ~Expired(c[k], t)} |-> c[kk]]

\* Cache.DeleteExpired() at instant t
cacheDeleteExpired(c, t) == cacheItems(c, t)

\* the map of a new Cache
NoItems == [kk \in {} |-> Item(NilBytes, 0)]

\* Cache.Flush()
cacheFlush(c) == NoItems

----------------------------------------------------------------------------
(* The adapter *)

NoErr == "nil"
ErrNotExist == "os.ErrNotExist"
ErrCanceled == "ErrCanceled"

\* ttlOf without the conversion of seconds to the engine's time unit
ttlOfUnscaled(ttlSeconds) == IF ttlSeconds > 0 THEN ttlSeconds ELSE NoExpiration

\* the ttl handed to Cache.Set for a TTL in seconds
ttlOf(ttlSeconds) == IF ttlSeconds > 0 THEN Seconds(ttlSeconds) ELSE NoExpiration

\* the []byte read by `if obj, ok := t.cache.Get(..); ok && obj != nil`
readBytes(c, key, t) ==
    LET r == cacheGet(c, key, t)
    IN  IF r.found THEN r.obj ELSE NilBytes

\* getImpl that never fails, whatever `required`
getImplNeverFails(c, key, required, t) ==
    [val |-> readBytes(c, key, t), err |-> NoErr]

\* getImpl that takes a value without bytes, nil or not, for a missing key
getImplEmptyAbsent(c, key, required, t) ==
    LET val == readBytes(c, key, t)
    IN  IF Len(val.bytes) = 0 /\ required
        THEN [val |-> NilBytes, err |-> ErrNotExist]
        ELSE [val |-> val, err |-> NoErr]

getImpl(c, key, required, t) ==
    LET val == readBytes(c, key, t)
    IN  IF val.isNil /\ required
        THEN [val |-> NilBytes, err |-> ErrNotExist]
        ELSE [val |-> val, err |-> NoErr]

GetRaw(c, key, required, t) == getImpl(c, key, required, t)

\* SetRaw that writes only when nothing is stored under the key
SetRawIfAbsent(c, key, value, ttlSeconds, t) ==
    IF cacheGet(c, key, t).found THEN c
    ELSE cacheSet(c, key, value, ttlOf(ttlSeconds), t)

SetRaw(c, key, value, ttlSeconds, t) ==
    cacheSet(c, key, value, ttlOf(ttlSeconds), t)

\* RemoveRaw that deletes every key that starts with the key it is given
RemoveRawWithPrefix(c, key) ==
    [kk \in {k \in DOMAIN c : ~HasPrefix(k, key)} |-> c[kk]]

RemoveRaw(c, key) == cacheDelete(c, key)

------------------------------------------------------------

\* store.RawEntry as UpdateRaw builds it
RawEntry(key, value) == [Key |-> key, Value |-> value, Ttl |-> NoTTL, Version |-> 0]

\* a mutator of kind "assign" assigns the fields it names and returns `commit`
assignCb(m, entry) ==
    [entry |-> [Key     |-> IF m.setKey THEN m.Key ELSE entry.Key,
                Value   |-> IF m.setValue THEN m.Value ELSE entry.Value,
                Ttl     |-> IF m.setTtl THEN m.Ttl ELSE entry.Ttl,
                Version |-> IF m.setVersion THEN m.Version ELSE entry.Version],
     ok |-> m.commit]

\* counterOf that asks for more than 8 bytes
counterOfStrict(m, entry) ==
    IF Len8(entry.Value) > 8 THEN BigEndianUint64(entry.Value.bytes) ELSE m.initial

\* the counter IncrementRaw's callback reads from the entry
counterOf(m, entry) ==
    IF Len8(entry.Value) >= 8 THEN BigEndianUint64(entry.Value.bytes) ELSE m.initial

\* IncrementRaw's callback
incrementCb(m, entry) ==
    [entry |-> [entry EXCEPT
                  !.Value = Bytes(PutUint64(AddInt64(counterOf(m, entry), m.delta))),
                  !.Ttl = m.ttl],
     ok |-> TRUE]

\* the callback handed to UpdateRaw, applied to the entry
cb(m, entry) ==
    IF m.kind = "increment" THEN incrementCb(m, entry) ELSE assignCb(m, entry)

\* updateRead that hands the mutator the seconds the stored entry has left
updateReadStoredTtl(c, key, t) ==
    [RawEntry(key, readBytes(c, key, t)) EXCEPT
        !.Ttl = IF cacheGet(c, key, t).found /\ c[key].Expiration > 0
                THEN (c[key].Expiration - t + TicksPerSecond - 1) \div TicksPerSecond
                ELSE NoTTL]

\* UpdateRaw's read: the entry handed to the mutator
updateRead(c, key, t) == RawEntry(key, readBytes(c, key, t))

\* updateWrite that writes the entry back before it looks at the mutator's answer
updateWriteFirst(c, key, m, rawEntry, t) ==
    LET r == cb(m, rawEntry)
        w == cacheSet(c, key, r.entry.Value, ttlOf(r.entry.Ttl), t)
    IN  [items |-> w, err |-> IF r.ok THEN NoErr ELSE ErrCanceled, seen |-> rawEntry]

\* updateWrite that reads the entry again and mutates what is stored by then
updateWriteFresh(c, key, m, rawEntry, t) ==
    LET cur == updateRead(c, key, t)
        r == cb(m, cur)
    IN  IF ~r.ok
        THEN [items |-> c, err |-> ErrCanceled, seen |-> cur]
        ELSE [items |-> cacheSet(c, key, r.entry.Value, ttlOf(r.entry.Ttl), t),
              err |-> NoErr, seen |-> cur]

\* updateWrite that writes under the Key the mutator left in the entry
updateWriteEntryKey(c, key, m, rawEntry, t) ==
    LET r == cb(m, rawEntry)
    IN  IF ~r.ok
        THEN [items |-> c, err |-> ErrCanceled, seen |-> rawEntry]
        ELSE [items |-> cacheSet(c, r.entry.Key, r.entry.Value, ttlOf(r.entry.Ttl), t),
              err |-> NoErr, seen |-> rawEntry]

\* UpdateRaw from the mutator's call on: cancel, or write the entry back
updateWrite(c, key, m, rawEntry, t) ==
    LET r == cb(m, rawEntry)
    IN  IF ~r.ok
        THEN [items |-> c, err |-> ErrCanceled, seen |-> rawEntry]
        ELSE [items |-> cacheSet(c, key, r.entry.Value, ttlOf(r.entry.Ttl), t),
              err |-> NoErr, seen |-> rawEntry]

UpdateRaw(c, key, m, t) == updateWrite(c, key, m, updateRead(c, key, t), t)

\* the mutator IncrementRaw hands to UpdateRaw
incrementer(initial, delta, ttlSeconds) ==
    [kind |-> "increment", initial |-> initial, delta |-> delta, ttl |-> ttlSeconds]

\* IncrementRaw that returns the counter after the addition
IncrementRawReturnsNew(c, key, initial, delta, ttlSeconds, t) ==
    LET m == incrementer(initial, delta, ttlSeconds)
        u == UpdateRaw(c, key, m, t)
    IN  [items |-> u.items, err |-> u.err,
         prev |-> AddInt64(counterOf(m, u.seen), delta)]

IncrementRaw(c, key, initial, delta, ttlSeconds, t) ==
    LET m == incrementer(initial, delta, ttlSeconds)
        u == UpdateRaw(c, key, m, t)
    IN  [items |-> u.items, err |-> u.err, prev |-> counterOf(m, u.seen)]

\* CompareAndSetRaw that writes only when `version` is the stored expiration
CompareAndSetRawChecked(c, key, value, ttlSeconds, version, t) ==
    LET cur == IF cacheGet(c, key, t).found THEN c[key].Expiration ELSE 0
    IN  IF version = cur
        THEN [ok |-> TRUE, items |-> SetRaw(c, key, value, ttlSeconds, t)]
        ELSE [ok |-> FALSE, items |-> c]

CompareAndSetRaw(c, key, value, ttlSeconds, version, t) ==
    [ok |-> TRUE, items |-> SetRaw(c, key, value, ttlSeconds, t)]

\* touchWrite that reads the value again at the moment it writes
touchWriteFresh(c, key, value, ttlSeconds, t) ==
    cacheSet(c, key, readBytes(c, key, t), ttlOf(ttlSeconds), t)

\* TouchRaw's write of the value it read
touchWrite(c, key, value, ttlSeconds, t) ==
    cacheSet(c, key, value, ttlOf(ttlSeconds), t)

\* TouchRaw that writes nothing when it finds no value under the key
TouchRawIfPresent(c, key, ttlSeconds, t) ==
    IF cacheGet(c, key, t).found
    THEN touchWrite(c, key, readBytes(c, key, t), ttlSeconds, t)
    ELSE c

TouchRaw(c, key, ttlSeconds, t) ==
    touchWrite(c, key, readBytes(c, key, t), ttlSeconds, t)

\* Compact that removes every entry that has an expiration, due or not
CompactTimed(c, discardRatio, t) ==
    [kk \in {k \in DOMAIN c : c[k].Expiration = 0} |-> c[kk]]

Compact(c, discardRatio, t) == cacheDeleteExpired(c, t)

DropAll(c) == cacheFlush(c)

\* DropWithPrefix that leaves its loop after the first key it deletes
DropWithPrefixOnce(c, prefix, t) ==
    LET ks == {k \in DOMAIN cacheItems(c, t) : HasPrefix(k, prefix)}
    IN  IF ks = {} THEN c ELSE cacheDelete(c, CHOOSE x \in ks : TRUE)

\* DropWithPrefix deletes, one by one, the keys of the Items() copy that match
RECURSIVE deleteEach(_, _)
deleteEach(c, ks) ==
    IF ks = {} THEN c
    ELSE LET k == CHOOSE x \in ks : TRUE
         IN  deleteEach(cacheDelete(c, k), ks \ {k})

DropWithPrefix(c, prefix, t) ==
    deleteEach(c, {k \in DOMAIN cacheItems(c, t) : HasPrefix(k, prefix)})

----------------------------------------------------------------------------
(* Enumeration.  Go ranges over the map Items() returns in an order of its  *)
(* own choosing: `order` is that order, a sequence of the map's keys.  The  *)
(* visit callback is given by the call on which it returns false (0: it     *)
(* always returns true).                                                    *)

visitReturns(stopAt, calls) == calls # stopAt

\* the entry doEnumerateRaw builds for a key of the map
entryOf(key, item, onlyKeys) ==
    [Key |-> key, Ttl |-> item.Expiration, Version |-> item.Expiration,
     Value |-> IF onlyKeys THEN NilBytes ELSE item.Object]

\* the loop of doEnumerateRaw over what is left of the order; `sent` is what
\* the callback has been given so far
RECURSIVE rangeItems(_, _, _, _, _, _, _)
rangeItems(m, rest, prefix, seek, onlyKeys, stopAt, sent) ==
    IF rest = <<>> THEN sent
    ELSE LET key == Head(rest) IN
         IF HasPrefix(key, prefix) /\ StrGeq(key, seek)
         THEN LET now1 == Append(sent, entryOf(key, m[key], onlyKeys)) IN
              IF ~visitReturns(stopAt, Len(now1)) THEN now1
              ELSE rangeItems(m, Tail(rest), prefix, seek, onlyKeys, stopAt, now1)
         ELSE rangeItems(m, Tail(rest), prefix, seek, onlyKeys, stopAt, sent)

\* doEnumerateRaw that stops after batchSize entries when batchSize > 0
doEnumerateRawBatched(c, prefix, seek, batchSize, onlyKeys, order, stopAt, t) ==
    LET all == rangeItems(cacheItems(c, t), order, prefix, seek, onlyKeys, stopAt, <<>>)
    IN  IF batchSize > 0 /\ Len(all) > batchSize THEN SubSeq(all, 1, batchSize) ELSE all

\* what doEnumerateRaw hands to its callback, in order
doEnumerateRaw(c, prefix, seek, batchSize, onlyKeys, order, stopAt, t) ==
    rangeItems(cacheItems(c, t), order, prefix, seek, onlyKeys, stopAt, <<>>)

\* the loop over the collected entries without its `break`
RECURSIVE backwardsNoBreak(_, _, _, _)
backwardsNoBreak(collected, j, stopAt, sent) ==
    IF j < 1 THEN sent
    ELSE backwardsNoBreak(collected, j - 1, stopAt, Append(sent, collected[j]))

\* the loop `for j := n-1; j >= 0; j--` over the collected entries
RECURSIVE backwards(_, _, _, _)
backwards(collected, j, stopAt, sent) ==
    IF j < 1 THEN sent
    ELSE LET now1 == Append(sent, collected[j]) IN
         IF ~visitReturns(stopAt, Len(now1)) THEN now1
         ELSE backwards(collected, j - 1, stopAt, now1)

\* EnumerateRaw that forgets to walk the collected entries backwards
EnumerateRawForwardOnly(c, prefix, seek, batchSize, onlyKeys, reverse, order, stopAt, t) ==
    [out |-> doEnumerateRaw(c, prefix, seek, batchSize, onlyKeys, order, stopAt, t),
     err |-> NoErr]

\* what EnumerateRaw hands to the caller's callback, in order, and its error
EnumerateRaw(c, prefix, seek, batchSize, onlyKeys, reverse, order, stopAt, t) ==
    IF reverse
    THEN LET collected == doEnumerateRaw(c, prefix, seek, batchSize, onlyKeys, order, 0, t)
         IN  [out |-> backwards(collected, Len(collected), stopAt, <<>>), err |-> NoErr]
    ELSE [out |-> doEnumerateRaw(c, prefix, seek, batchSize, onlyKeys, order, stopAt, t),
          err |-> NoErr]

\* the orders in which Go may range over a map with the keys ks
RECURSIVE Orders(_)
Orders(ks) ==
    IF ks = {} THEN { <<>> }
    ELSE UNION { { <<k>> \o o : o \in Orders(ks \ {k}) } : k \in ks }

----------------------------------------------------------------------------
(* Backup and Restore: the engine's Save and Load *)

\* encoding/gob of an item's Object, a []byte held in an interface: the
\* count of its bytes, then the bytes; a nil slice and an empty one are both
\* written as the count 0
gobEncode(x) == [n |-> Len(x.bytes), bytes |-> x.bytes]

\* the decoder fills a new (nil) slice, and allocates only when the count is
\* more than its capacity: a count of 0 leaves the slice nil
gobDecode(e) == IF e.n = 0 THEN NilBytes ELSE Bytes(e.bytes)

\* Cache.Save(w): every item of the map, expired or not, gob-encoded
cacheSave(c) ==
    [k \in DOMAIN c |->
        [Object |-> gobEncode(c[k].Object), Expiration |-> c[k].Expiration]]

\* Cache.Load(r) at instant t: the items decoded, except over a live item
cacheLoad(c, read, t) ==
    LET decoded == [k \in DOMAIN read |->
                       Item(gobDecode(read[k].Object), read[k].Expiration)]
    IN  [k \in (DOMAIN c) \cup (DOMAIN decoded) |->
            IF k \in DOMAIN decoded /\ (k \notin DOMAIN c \/ Expired(c[k], t))
            THEN decoded[k] ELSE c[k]]

Backup(c, since) == [written |-> cacheSave(c), n |-> 0, err |-> NoErr]

Restore(c, src, t) == [items |-> cacheLoad(c, src, t), err |-> NoErr]

----------------------------------------------------------------------------
(* Inputs *)

Values == { NilBytes, Bytes(<<>>), Bytes(<<5>>) }
TTLs == { -1, 0, 1 }
Versions == { 0, 7 }
Prefixes == { <<>>, <<1>>, <<1, 2>>, <<2>> }
DiscardRatios == { 0, 1 }

\* mutators: each assigns some of Value, Ttl, Version, Key and commits or not
Mutators ==
    { [kind |-> "assign", commit |-> c, setValue |-> sv, Value |-> Bytes(<<5>>), setTtl |-> st, Ttl |-> 1,
       setKey |-> sk, Key |-> <<1>>, setVersion |-> sk, Version |-> 7] :
         c \in BOOLEAN, sv \in BOOLEAN, st \in BOOLEAN, sk \in BOOLEAN }

Procs == { 1, 2 }

NoCall == [op |-> "none"]
NoWrite == [set |-> FALSE, updated |-> FALSE]

----------------------------------------------------------------------------
(* Actions: one call each by a single caller.  A call is made when the     *)
(* previous one has returned (last = NoCall) and leaves in `last` what it  *)
(* was given, the map it found and what it returned; Return hands that to  *)
(* the caller.                                                             *)

\* key k is stored in map c at instant t: present and not expired
Stored(c, k, t) == k \in DOMAIN c /\ ~Expired(c[k], t)

Ready == last = NoCall /\ \A p \in Procs : pc[p] = "idle"

Fresh == [ok |-> TRUE, rets |-> <<>>]
Broken == [ok |-> FALSE, rets |-> <<>>]

\* `run` once the map is c and the keys of ks were written by something that
\* is not an Increment by 1 from 0: a key that is not in the map is fresh
RunAfter(c, ks) ==
    [k \in Keys |-> IF k \notin DOMAIN c THEN Fresh
                    ELSE IF k \in ks THEN Broken ELSE run[k]]

\* the keys of ks are written by something other than Set
Overwritten(ks) == [k \in Keys |-> IF k \in ks THEN NoWrite ELSE written[k]]

\* key is written by a committed Update with mutator m, from map c at t:
\* whether m assigned Ttl and, when it did not, the expiration the key had
\* (0: none, or not stored)
Updated(c, key, m, t) ==
    [set |-> FALSE, updated |-> TRUE, setTtl |-> m.setTtl,
     was |-> IF ~m.setTtl /\ Stored(c, key, t) THEN c[key].Expiration ELSE 0]

Set(key, value, ttlSeconds) ==
    /\ Ready
    /\ items' = SetRaw(items, key, value, ttlSeconds, now)
    /\ last' = [op |-> "Set", key |-> key, value |-> value, ttl |-> ttlSeconds,
                before |-> items, err |-> NoErr]
    /\ written' = [written EXCEPT ![key] =
                      [set |-> TRUE, updated |-> FALSE, value |-> value,
                       deadline |-> IF ttlSeconds > 0
                                    THEN now + ttlSeconds * TicksPerSecond ELSE 0]]
    /\ run' = RunAfter(items', {key})
    /\ UNCHANGED <<now, stream, restored, pc, loc>>

Get(key, required) ==
    /\ Ready
    /\ LET r == GetRaw(items, key, required, now)
       IN  last' = [op |-> "Get", key |-> key, required |-> required,
                    before |-> items, val |-> r.val, err |-> r.err]
    /\ UNCHANGED <<items, now, written, run, stream, restored, pc, loc>>

Remove(key) ==
    /\ Ready
    /\ items' = RemoveRaw(items, key)
    /\ last' = [op |-> "Remove", key |-> key, before |-> items, err |-> NoErr]
    /\ written' = Overwritten({key})
    /\ run' = RunAfter(items', {key})
    /\ UNCHANGED <<now, stream, restored, pc, loc>>

Update(key, m) ==
    /\ Ready
    /\ LET r == UpdateRaw(items, key, m, now)
       IN  /\ items' = r.items
           /\ last' = [op |-> "Update", key |-> key, m |-> m, before |-> items,
                       seen |-> r.seen, err |-> r.err]
           /\ written' = IF r.err = NoErr
                         THEN [written EXCEPT ![key] = Updated(items, key, m, now)]
                         ELSE written
           /\ run' = RunAfter(items', IF r.err = NoErr THEN {key} ELSE {})
    /\ UNCHANGED <<now, stream, restored, pc, loc>>

CompareAndSet(key, value, ttlSeconds, version) ==
    /\ Ready
    /\ LET r == CompareAndSetRaw(items, key, value, ttlSeconds, version, now)
       IN  /\ items' = r.items
           /\ last' = [op |-> "CompareAndSet", key |-> key, value |-> value,
                       ttl |-> ttlSeconds, version |-> version, before |-> items,
                       ok |-> r.ok, err |-> NoErr]
    /\ written' = Overwritten({key})
    /\ run' = RunAfter(items', {key})
    /\ UNCHANGED <<now, stream, restored, pc, loc>>

Touch(key, ttlSeconds) ==
    /\ Ready
    /\ items' = TouchRaw(items, key, ttlSeconds, now)
    /\ last' = [op |-> "Touch", key |-> key, ttl |-> ttlSeconds, before |-> items,
                err |-> NoErr]
    /\ written' = Overwritten({key})
    /\ run' = RunAfter(items', {key})
    /\ UNCHANGED <<now, stream, restored, pc, loc>>

\* Increment is offered while the counter it leaves is one of -1 .. MaxCount
InRange(x) == \E n \in -1..MaxCount : x = Int64(n)

Increment(key, initial, delta, ttlSeconds) ==
    /\ Ready
    /\ LET r == IncrementRaw(items, key, initial, delta, ttlSeconds, now)
           counts == /\ initial = Int64(0) /\ delta = Int64(1)
                     /\ run[key].ok
                     /\ run[key].rets # <<>> => Stored(items, key, now)
       IN  /\ InRange(BigEndianUint64(r.items[key].Object.bytes))
           /\ items' = r.items
           /\ last' = [op |-> "Increment", key |-> key, initial |-> initial,
                       delta |-> delta, ttl |-> ttlSeconds, before |-> items,
                       prev |-> r.prev, err |-> r.err]
           /\ run' = IF counts
                     THEN [run EXCEPT ![key].rets = Append(@, r.prev)]
                     ELSE RunAfter(items', {key})
    /\ written' = Overwritten({key})
    /\ UNCHANGED <<now, stream, restored, pc, loc>>

DoCompact(discardRatio) ==
    /\ Ready
    /\ items' = Compact(items, discardRatio, now)
    /\ last' = [op |-> "Compact", discardRatio |-> discardRatio, before |-> items,
                err |-> NoErr]
    /\ run' = RunAfter(items', {})
    /\ UNCHANGED <<now, written, stream, restored, pc, loc>>

DoDropAll ==
    /\ Ready
    /\ items' = DropAll(items)
    /\ last' = [op |-> "DropAll", before |-> items, err |-> NoErr]
    /\ written' = Overwritten(Keys)
    /\ run' = RunAfter(items', {})
    /\ UNCHANGED <<now, stream, restored, pc, loc>>

DoDropWithPrefix(prefix) ==
    /\ Ready
    /\ items' = DropWithPrefix(items, prefix, now)
    /\ last' = [op |-> "DropWithPrefix", prefix |-> prefix, before |-> items,
                err |-> NoErr]
    /\ written' = Overwritten({k \in Keys : HasPrefix(k, prefix)})
    /\ run' = RunAfter(items', {})
    /\ UNCHANGED <<now, stream, restored, pc, loc>>

Enumerate(prefix, seek, batchSize, onlyKeys, reverse, order, stopAt) ==
    /\ Ready
    /\ LET r == EnumerateRaw(items, prefix, seek, batchSize, onlyKeys, reverse,
                             order, stopAt, now)
       IN  last' = [op |-> "Enumerate", prefix |-> prefix, seek |-> seek,
                    batchSize |-> batchSize, onlyKeys |-> onlyKeys,
                    reverse |-> reverse, order |-> order, stopAt |-> stopAt,
                    before |-> items, out |-> r.out, err |-> r.err]
    /\ UNCHANGED <<items, now, written, run, stream, restored, pc, loc>>

NoStream == [written |-> FALSE]

DoBackup(since) ==
    /\ Ready
    /\ LET r == Backup(items, since)
       IN  /\ stream' = [written |-> TRUE, bytes |-> r.written, source |-> items]
           /\ last' = [op |-> "Backup", since |-> since, n |-> r.n, err |-> r.err]
    /\ UNCHANGED <<items, now, written, run, restored, pc, loc>>

\* Restore, by a second store that is new, of what Backup wrote
DoRestore ==
    /\ Ready
    /\ stream.written
    /\ restored = NoItems
    /\ LET r == Restore(restored, stream.bytes, now)
       IN  /\ restored' = r.items
           /\ last' = [op |-> "Restore", source |-> stream.source, err |-> r.err]
    /\ stream' = NoStream
    /\ UNCHANGED <<items, now, written, run, pc, loc>>

\* the call returns to its caller; the store a Restore filled is let go
Return ==
    /\ last # NoCall
    /\ last' = NoCall
    /\ restored' = NoItems
    /\ UNCHANGED <<items, now, written, run, stream, pc, loc>>

\* time passes between calls
Tick ==
    /\ Ready
    /\ now < MaxTime
    /\ now' = now + 1
    /\ UNCHANGED <<items, last, written, run, stream, restored, pc, loc>>

----------------------------------------------------------------------------

Init ==
    /\ items = NoItems
    /\ now = 0
    /\ last = NoCall
    /\ written = [k \in Keys |-> NoWrite]
    /\ run = [k \in Keys |-> Fresh]
    /\ stream = NoStream
    /\ restored = NoItems
    /\ pc = [p \in Procs |-> "idle"]
    /\ loc = [p \in Procs |-> NoCall]

Next ==
    \/ \E k \in KVKeys, v \in Values, ttl \in TTLs : Set(k, v, ttl)
    \/ \E k \in KVKeys, r \in BOOLEAN : Get(k, r)
    \/ \E k \in KVKeys : Remove(k)
    \/ \E k \in KVKeys, m \in Mutators : Update(k, m)
    \/ \E k \in KVKeys, v \in Values, ttl \in TTLs, ver \in Versions :
          CompareAndSet(k, v, ttl, ver)
    \/ \E k \in KVKeys, ttl \in TTLs : Touch(k, ttl)
    \/ \E d \in DiscardRatios : DoCompact(d)
    \/ DoDropAll
    \/ \E p \in Prefixes : DoDropWithPrefix(p)
    \/ Return
    \/ Tick

Spec == Init /\ [][Next]_vars

\* the counter: Increment among the calls that write, read and delete a key
CounterValues == { Bytes(<<5>>), Bytes(<<255, 255, 255, 255, 255, 255, 255, 255, 9>>) }
Initials == { Int64(0), Int64(2) }
Deltas == { Int64(1), Int64(-1) }

NextIncr ==
    \/ \E k \in KVKeys, i \in Initials, d \in Deltas, ttl \in {0, 1} :
          Increment(k, i, d, ttl)
    \/ \E k \in KVKeys, v \in CounterValues : Set(k, v, 0)
    \/ \E k \in KVKeys : Get(k, TRUE)
    \/ \E k \in KVKeys : Remove(k)
    \/ Return
    \/ Tick

SpecIncr == Init /\ [][NextIncr]_vars


\* enumeration: Enumerate over the maps that Set, Remove and the clock make
EnumValues == { NilBytes, Bytes(<<5>>) }
EnumPrefixes == { <<>>, <<1>>, <<1, 2>> }
EnumSeeks == { <<>>, <<1, 2>> }
BatchSizes == { 0, 1 }
StopAts == { 0, 2 }
\* the Sets of the enumeration runs: the nil value goes under one key only,
\* and one other key only is set with a TTL
EnumSets ==
    { w \in Keys \X EnumValues \X {0, 1} :
        /\ w[2].isNil => w[1] = <<2>>
        /\ w[3] > 0 => w[1] = <<1, 2>> }

NextEnum ==
    \/ \E w \in EnumSets : Set(w[1], w[2], w[3])
    \/ \E k \in Keys : Remove(k)
    \/ \E p \in EnumPrefixes, sk \in EnumSeeks, b \in BatchSizes,
          ok \in BOOLEAN, rev \in BOOLEAN, st \in StopAts,
          o \in Orders(DOMAIN cacheItems(items, now)) :
          Enumerate(p, sk, b, ok, rev, o, st)
    \/ Return
    \/ Tick

SpecEnum == Init /\ [][NextEnum]_vars

\* backup: a store is written, backed up, and the backup restored into a new
\* store; between Backup and Restore time passes and the sweep may run
BackupValues == { NilBytes, Bytes(<<>>), Bytes(<<5>>) }
Sinces == { 0, 5 }

NextBackup ==
    \/ \E k \in KVKeys, v \in BackupValues, ttl \in {0, 1} :
          ~stream.written /\ Set(k, v, ttl)
    \/ \E k \in KVKeys : ~stream.written /\ Remove(k)
    \/ \E d \in DiscardRatios : DoCompact(d)
    \/ \E since \in Sinces : ~stream.written /\ DoBackup(since)
    \/ DoRestore
    \/ Return
    \/ Tick

SpecBackup == Init /\ [][NextBackup]_vars

\* every operation that names a key or a prefix, and the reads, over two
\* keys of which one is a prefix of the other
FrameValues == { Bytes(<<5>>) }
FrameMutators == { m \in Mutators : m.commit /\ m.setKey }

NextFrame ==
    \/ \E k \in KVKeys, v \in FrameValues, ttl \in {0, 1} : Set(k, v, ttl)
    \/ \E k \in KVKeys, v \in FrameValues : CompareAndSet(k, v, 0, 0)
    \/ \E k \in KVKeys : Touch(k, 1)
    \/ \E k \in KVKeys : Remove(k)
    \/ \E k \in KVKeys : Increment(k, Int64(0), Int64(1), 0)
    \/ \E k \in KVKeys, m \in FrameMutators : Update(k, m)
    \/ \E p \in Prefixes : DoDropWithPrefix(p)
    \/ \E k \in KVKeys : Get(k, FALSE)
    \/ \E p \in EnumPrefixes, o \in Orders(DOMAIN cacheItems(items, now)) :
          Enumerate(p, <<>>, 0, FALSE, FALSE, o, 0)
    \/ Return
    \/ Tick

SpecFrame == Init /\ [][NextFrame]_vars

----------------------------------------------------------------------------
(* Concurrent callers.  The engine's Get and Set are atomic (its mutex);   *)
(* the adapter holds no lock of its own, so a call that reads and then     *)
(* writes is two steps, and other callers' steps may fall between them.    *)

ConcKey == <<1>>
ConcValues == { Bytes(<<5>>), Bytes(<<6>>) }

\* caller p enters UpdateRaw for an Increment and reads the entry
IncrementBegin(p, key, initial, delta, ttlSeconds) ==
    /\ last = NoCall
    /\ pc[p] = "idle"
    /\ pc' = [pc EXCEPT ![p] = "updating"]
    /\ loc' = [loc EXCEPT ![p] =
                 [op |-> "Increment", key |-> key,
                  m |-> incrementer(initial, delta, ttlSeconds),
                  seen |-> updateRead(items, key, now),
                  with |-> {q \in Procs : pc[q] = "updating" /\ loc[q].key = key}]]
    /\ UNCHANGED <<items, now, last, written, run, stream, restored>>

\* caller p runs the mutator on the entry it read and writes it back
IncrementEnd(p) ==
    /\ pc[p] = "updating"
    /\ LET l == loc[p]
           r == updateWrite(items, l.key, l.m, l.seen, now)
       IN  /\ InRange(BigEndianUint64(r.items[l.key].Object.bytes))
           /\ items' = r.items
           /\ loc' = [loc EXCEPT ![p] =
                        [op |-> "Increment", key |-> l.key, m |-> l.m,
                         seen |-> l.seen, with |-> l.with,
                         prev |-> counterOf(l.m, r.seen), err |-> r.err]]
           /\ written' = Overwritten({l.key})
           /\ run' = RunAfter(items', {l.key})
    /\ pc' = [pc EXCEPT ![p] = "returned"]
    /\ UNCHANGED <<now, last, stream, restored>>

\* caller p enters TouchRaw and reads the value
TouchBegin(p, key, ttlSeconds) ==
    /\ last = NoCall
    /\ pc[p] = "idle"
    /\ pc' = [pc EXCEPT ![p] = "touching"]
    /\ loc' = [loc EXCEPT ![p] =
                 [op |-> "Touch", key |-> key, ttl |-> ttlSeconds,
                  value |-> readBytes(items, key, now)]]
    /\ UNCHANGED <<items, now, last, written, run, stream, restored>>

\* caller p writes the value it read, with the new expiration
TouchEnd(p) ==
    /\ pc[p] = "touching"
    /\ LET l == loc[p]
       IN  /\ items' = touchWrite(items, l.key, l.value, l.ttl, now)
           /\ loc' = [loc EXCEPT ![p] =
                        [op |-> "Touch", key |-> l.key, ttl |-> l.ttl,
                         value |-> l.value, after |-> {q \in Procs : pc[q] = "returned"},
                         err |-> NoErr]]
           /\ written' = Overwritten({l.key})
           /\ run' = RunAfter(items', {l.key})
    /\ pc' = [pc EXCEPT ![p] = "returned"]
    /\ UNCHANGED <<now, last, stream, restored>>

\* caller p's SetRaw: one call of the engine
SetBy(p, key, value, ttlSeconds) ==
    /\ last = NoCall
    /\ pc[p] = "idle"
    /\ items' = SetRaw(items, key, value, ttlSeconds, now)
    /\ loc' = [loc EXCEPT ![p] =
                 [op |-> "Set", key |-> key, value |-> value, ttl |-> ttlSeconds,
                  during |-> {q \in Procs : pc[q] \in {"updating", "touching"}},
                  err |-> NoErr]]
    /\ written' = [written EXCEPT ![key] =
                      [set |-> TRUE, updated |-> FALSE, value |-> value,
                       deadline |-> IF ttlSeconds > 0
                                    THEN now + ttlSeconds * TicksPerSecond ELSE 0]]
    /\ run' = RunAfter(items', {key})
    /\ pc' = [pc EXCEPT ![p] = "returned"]
    /\ UNCHANGED <<now, last, stream, restored>>

\* caller p has taken what its call returned and may call again
Again(p) ==
    /\ pc[p] = "returned"
    /\ pc' = [pc EXCEPT ![p] = "idle"]
    /\ loc' = [loc EXCEPT ![p] = NoCall]
    /\ UNCHANGED <<items, now, last, written, run, stream, restored>>

\* time passes, also in the middle of calls
TickDuring ==
    /\ now < MaxTime
    /\ now' = now + 1
    /\ UNCHANGED <<items, last, written, run, stream, restored, pc, loc>>

NextConc ==
    \/ \E p \in Procs, ttl \in {0, 1} :
          IncrementBegin(p, ConcKey, Int64(0), Int64(1), ttl)
    \/ \E p \in Procs : IncrementEnd(p)
    \/ \E p \in Procs, ttl \in {0, 1} : TouchBegin(p, ConcKey, ttl)
    \/ \E p \in Procs : TouchEnd(p)
    \/ \E p \in Procs, v \in ConcValues, ttl \in {0, 1} : SetBy(p, ConcKey, v, ttl)
    \/ \E p \in Procs : Again(p)
    \/ TickDuring

SpecConc == Init /\ [][NextConc]_vars

----------------------------------------------------------------------------
(* Claims *)

Absent == [val |-> NilBytes, err |-> NoErr]

C2_GetAbsent ==
    (last.op = "Get" /\ ~Stored(last.before, last.key, now)) =>
        /\ last.required => (last.err = ErrNotExist /\ last.val = NilBytes)
        /\ ~last.required => (last.err = NoErr /\ last.val = NilBytes)
        /\ items = last.before

\* C2 witness: a required Get of a key that is in the map and has expired
C2_Witness ==
    /\ last.op = "Get"
    /\ last.required
    /\ last.key \in DOMAIN last.before
    /\ Expired(last.before[last.key], now)
    /\ last.err = ErrNotExist

\* C3: an Update whose mutator returns false returns ErrCanceled and leaves
\* the value and the expiration of every key as they were, whatever the
\* mutator assigned to Value, Ttl, Version and Key
C3_UpdateCanceled ==
    (last.op = "Update" /\ ~last.m.commit) =>
        /\ last.err = ErrCanceled
        /\ items = last.before

\* C3 witness: a mutator that assigned every field of a stored entry, with
\* another value, and returned false
C3_Witness ==
    /\ last.op = "Update"
    /\ ~last.m.commit
    /\ last.m.setValue /\ last.m.setTtl /\ last.m.setKey /\ last.m.setVersion
    /\ Stored(last.before, last.key, now)
    /\ last.before[last.key].Object # last.m.Value
    /\ last.m.Key # last.key

\* C6: CompareAndSet always writes and answers (true, nil): the key then
\* holds the value with the expiration of the TTL, the map is the one Set
\* would have left, and the version passed makes no difference
C6_CompareAndSetAlwaysWrites ==
    last.op = "CompareAndSet" =>
        /\ last.ok /\ last.err = NoErr
        /\ items[last.key] =
              Item(last.value,
                   IF last.ttl > 0 THEN now + last.ttl * TicksPerSecond ELSE 0)
        /\ \A k \in (DOMAIN items) \ {last.key} :
              k \in DOMAIN last.before /\ items[k] = last.before[k]
        /\ DOMAIN items = (DOMAIN last.before) \cup {last.key}
        /\ items = SetRaw(last.before, last.key, last.value, last.ttl, now)

\* C6 witness: a CompareAndSet over a stored entry, with a version that is
\* not the one Enumerate reports for it
C6_Witness ==
    /\ last.op = "CompareAndSet"
    /\ Stored(last.before, last.key, now)
    /\ last.version # last.before[last.key].Expiration
    /\ last.before[last.key].Object # last.value
    /\ last.ok

\* the 8 bytes, big-endian, of a natural below 256
EightBytes(n) == <<0, 0, 0, 0, 0, 0, 0, n>>

\* C5: n Increments by 1 from 0 of a fresh key, with no other write of the
\* key and no expiry in between, return 0, 1, ..., n-1 and leave the 8
\* big-endian bytes of n under the key
C5_IncrementSequence ==
    \A k \in Keys :
        run[k].ok =>
            LET n == Len(run[k].rets) IN
            /\ \A i \in 1..n : run[k].rets[i] = Int64(i - 1)
            /\ n = 0 => k \notin DOMAIN items
            /\ n > 0 => /\ k \in DOMAIN items
                        /\ items[k].Object = Bytes(EightBytes(n))

\* C5 witness: three such Increments have returned
C5_Witness ==
    /\ last.op = "Increment"
    /\ run[last.key].ok
    /\ Len(run[last.key].rets) = 3
    /\ last.prev = Int64(2)

\* C4: Update is not atomic between callers.  Two Increments by 1 of the same
\* key that both read the same entry before either wrote it (q had read and
\* not written when p read) return the same previous value, and the counter
\* left is that value plus 1: one of the two increments is lost
C4_LostUpdate ==
    \A p, q \in Procs :
        (/\ p # q
         /\ pc[p] = "returned" /\ loc[p].op = "Increment"
         /\ pc[q] = "returned" /\ loc[q].op = "Increment"
         /\ q \in loc[p].with
         /\ loc[p].seen = loc[q].seen) =>
            /\ loc[p].prev = loc[q].prev
            /\ loc[p].key \in DOMAIN items
            /\ items[loc[p].key].Object =
                  Bytes(PutUint64(AddInt64(loc[p].prev, Int64(1))))

\* C4 witness: two Increments of a fresh key have both returned 0 and the
\* counter holds 1
C4_Witness ==
    /\ \A p \in Procs :
          /\ pc[p] = "returned" /\ loc[p].op = "Increment"
          /\ loc[p].seen.Value = NilBytes
          /\ loc[p].prev = Int64(0)
          /\ loc[p].err = NoErr
    /\ \E p \in Procs : loc[p].with # {}
    /\ items[ConcKey].Object = Bytes(EightBytes(1))

\* key k starts with the bytes of p
StartsWith(k, p) == Len(p) <= Len(k) /\ SubSeq(k, 1, Len(p)) = p

\* a <= b in byte-wise lexicographic order: a is a prefix of b, or a has the
\* smaller byte at the first place where they differ
LexLeq(a, b) ==
    \/ StartsWith(b, a)
    \/ \E i \in 1..Len(a) :
          /\ i <= Len(b)
          /\ SubSeq(a, 1, i - 1) = SubSeq(b, 1, i - 1)
          /\ a[i] < b[i]

\* s back to front
Reverse(s) == [i \in 1..Len(s) |-> s[Len(s) + 1 - i]]

\* the keys of map c, live at t, that start with prefix and are >= seek
Candidates(c, prefix, seek, t) ==
    { k \in DOMAIN c : ~Expired(c[k], t) /\ StartsWith(k, prefix) /\ LexLeq(seek, k) }

\* C7: an Enumerate whose callback always returns true delivers the live keys
\* that start with prefix and are >= seek, each once and no other key, with
\* no error; batchSize changes nothing of what is delivered
C7_EnumerateExactlyCandidates ==
    (last.op = "Enumerate" /\ last.stopAt = 0) =>
        LET want == Candidates(last.before, last.prefix, last.seek, now) IN
        /\ { last.out[i].Key : i \in 1..Len(last.out) } = want
        /\ Len(last.out) = Cardinality(want)
        /\ last.err = NoErr
        /\ \A b \in BatchSizes :
              last.out = EnumerateRaw(last.before, last.prefix, last.seek, b,
                                      last.onlyKeys, last.reverse, last.order,
                                      last.stopAt, now).out
        /\ items = last.before

\* C7 witness: an Enumerate with a batch size of 1 that delivers two keys of
\* a map that also holds an expired key
C7_Witness ==
    /\ last.op = "Enumerate" /\ last.stopAt = 0
    /\ last.batchSize = 1
    /\ Len(last.out) = 2
    /\ \E k \in DOMAIN last.before : Expired(last.before[k], now)

\* C8: for the same arguments, map and iteration order, what a reverse
\* Enumerate delivers is what a forward one delivers, back to front
C8_ReverseIsForwardReversed ==
    (last.op = "Enumerate" /\ last.reverse /\ last.stopAt = 0) =>
        last.out = Reverse(EnumerateRaw(last.before, last.prefix, last.seek,
                                        last.batchSize, last.onlyKeys, FALSE,
                                        last.order, 0, now).out)

\* C8 witness: a reverse Enumerate of three keys, in an order that is not
\* the sorted one
C8_Witness ==
    /\ last.op = "Enumerate" /\ last.reverse /\ last.stopAt = 0
    /\ Len(last.out) = 3
    /\ last.order[1] = <<2>>
    /\ last.out[1].Key # <<2>>

\* C9: right after DropWithPrefix(x), an Enumerate with prefix x delivers
\* nothing, whatever the seek, the flags and the iteration order, and every
\* key that starts with x reads as absent
C9_DropThenEmpty ==
    last.op = "DropWithPrefix" =>
        /\ \A sk \in EnumSeeks \cup Prefixes, b \in BatchSizes,
              ok \in BOOLEAN, rev \in BOOLEAN,
              o \in Orders(DOMAIN cacheItems(items, now)) :
              EnumerateRaw(items, last.prefix, sk, b, ok, rev, o, 0, now)
                 = [out |-> <<>>, err |-> NoErr]
        /\ \A k \in Keys :
              StartsWith(k, last.prefix) =>
                 /\ GetRaw(items, k, FALSE, now) = Absent
                 /\ GetRaw(items, k, TRUE, now).err = ErrNotExist

\* C9 witness: a DropWithPrefix that deleted two stored keys
C9_Witness ==
    /\ last.op = "DropWithPrefix"
    /\ Cardinality({ k \in DOMAIN last.before :
                       Stored(last.before, k, now) /\ StartsWith(k, last.prefix) }) = 2
    /\ last.prefix # <<>>

\* C10: Backup, with any `since`, then Restore of what it wrote into a new
\* store: every key reads in the restored store as it reads in the source as
\* it was at Backup (the entries keep their expiration instants), so the
\* keys readable, and their values, are the same
C10_BackupRestore ==
    last.op = "Restore" =>
        /\ last.err = NoErr
        /\ \A k \in Keys, r \in BOOLEAN :
              GetRaw(restored, k, r, now) = GetRaw(last.source, k, r, now)
        /\ \A k \in Keys :
              Stored(restored, k, now) <=> Stored(last.source, k, now)

\* C10 witness: a Restore of a Backup of a store in which a key held an empty
\* value that was readable, with required set, when the Restore ran
C10_Witness ==
    /\ last.op = "Restore"
    /\ \E k \in DOMAIN last.source :
          GetRaw(last.source, k, TRUE, now) = [val |-> Bytes(<<>>), err |-> NoErr]

\* what the round trip keeps: the keys in the map and their expiration
\* instants, and the bytes of every value; a key whose value has bytes reads
\* in the restored store as in the source
BackupRestoreKeeps ==
    last.op = "Restore" =>
        /\ DOMAIN restored = DOMAIN last.source
        /\ \A k \in DOMAIN restored :
              /\ restored[k].Expiration = last.source[k].Expiration
              /\ restored[k].Object.bytes = last.source[k].Object.bytes
              /\ Len(last.source[k].Object.bytes) > 0 =>
                    \A r \in BOOLEAN :
                        GetRaw(restored, k, r, now) = GetRaw(last.source, k, r, now)

\* what it loses: a key that held an empty value holds nil afterwards, and a
\* Get with required set does not find it
BackupRestoreLoses ==
    last.op = "Restore" =>
        \A k \in DOMAIN last.source :
            (Stored(last.source, k, now) /\ last.source[k].Object = Bytes(<<>>)) =>
                /\ restored[k].Object = NilBytes
                /\ GetRaw(restored, k, TRUE, now).err = ErrNotExist

\* C11 as stated: after Set(k, v, ttl), whatever v, nil and empty included,
\* and until the entry expires or is written or removed, a required Get of k
\* does not fail
C11_PresentWhateverValue ==
    \A k \in Keys :
        (written[k].set /\ (written[k].deadline = 0 \/ now <= written[k].deadline)) =>
            GetRaw(items, k, TRUE, now).err = NoErr

\* C11: after Set(k, v, ttl), until the entry expires or is written or
\* removed, the key is in the engine's map; a required Get of k returns v
\* with no error when v is not nil, an empty v included, and fails with
\* os.ErrNotExist when v is nil
C11_PresentUnlessNil ==
    \A k \in Keys :
        (written[k].set /\ (written[k].deadline = 0 \/ now <= written[k].deadline)) =>
            /\ Stored(items, k, now)
            /\ ~written[k].value.isNil =>
                  GetRaw(items, k, TRUE, now) = [val |-> written[k].value, err |-> NoErr]
            /\ written[k].value.isNil =>
                  GetRaw(items, k, TRUE, now) = [val |-> NilBytes, err |-> ErrNotExist]

\* C11 witness: a required Get that fails on a key whose Set, of a nil value,
\* is still in force, while the other key holds an empty value that is found
C11_Witness ==
    /\ last.op = "Get" /\ last.required /\ last.err = ErrNotExist
    /\ written[last.key].set /\ written[last.key].value.isNil
    /\ Stored(items, last.key, now)
    /\ \E k \in Keys \ {last.key} :
          /\ written[k].set /\ written[k].value = Bytes(<<>>)
          /\ GetRaw(items, k, TRUE, now).err = NoErr

\* the value stored under k in map c at instant t, nil when k is not stored
StoredValue(c, k, t) == IF Stored(c, k, t) THEN c[k].Object ELSE NilBytes

\* the expiration instant of a write at instant t with a TTL in seconds
Deadline(ttlSeconds, t) ==
    IF ttlSeconds > 0 THEN t + ttlSeconds * TicksPerSecond ELSE 0

\* C12: an Update whose mutator returns true hands the mutator the key, the
\* value stored under it (nil when the key is missing or expired), Ttl = NoTTL
\* and Version = 0 whatever the stored expiration; it then stores the entry's
\* final Value under the key Update was given, expiring Ttl seconds from now
\* when the final Ttl > 0 and never when it is <= 0, and returns no error
C12_UpdateCommit ==
    (last.op = "Update" /\ last.m.commit) =>
        LET k == last.key
            final == cb(last.m, last.seen).entry
        IN  /\ last.err = NoErr
            /\ last.seen = [Key |-> k, Value |-> StoredValue(last.before, k, now),
                            Ttl |-> NoTTL, Version |-> 0]
            /\ final.Value = (IF last.m.setValue THEN last.m.Value
                              ELSE StoredValue(last.before, k, now))
            /\ final.Ttl = (IF last.m.setTtl THEN last.m.Ttl ELSE NoTTL)
            /\ k \in DOMAIN items
            /\ items[k] = Item(final.Value, Deadline(final.Ttl, now))
            /\ \A ttl \in TTLs :
                  LET m == [last.m EXCEPT !.setTtl = TRUE, !.Ttl = ttl]
                  IN  UpdateRaw(last.before, k, m, now).items[k]
                         = Item(final.Value, Deadline(ttl, now))
            /\ \A kk \in Keys \ {k} :
                  /\ kk \in DOMAIN items <=> kk \in DOMAIN last.before
                  /\ kk \in DOMAIN items => items[kk] = last.before[kk]

\* C12 witness: a committed Update of a key stored with an expiration, by a
\* mutator that keeps the value, sets a Ttl and rewrites the entry's Key to
\* another key, which is not in the map afterwards
C12_Witness ==
    /\ last.op = "Update" /\ last.m.commit /\ last.err = NoErr
    /\ Stored(last.before, last.key, now)
    /\ last.before[last.key].Expiration > 0
    /\ ~last.before[last.key].Object.isNil
    /\ ~last.m.setValue /\ last.m.setTtl /\ last.m.setKey
    /\ last.m.Key # last.key
    /\ last.m.Key \notin DOMAIN items

\* C13: Touch(k, ttlSeconds) returns no error and leaves under k the value
\* that was stored there, expiring ttlSeconds from now when ttlSeconds > 0 and
\* never when it is <= 0; when k was not stored, the entry it writes holds
\* nil, and a Get of k that is not required returns nil with no error, as it
\* did before the Touch
C13_TouchKeepsValue ==
    last.op = "Touch" =>
        LET k == last.key IN
        /\ last.err = NoErr
        /\ k \in DOMAIN items
        /\ items[k] = Item(StoredValue(last.before, k, now), Deadline(last.ttl, now))
        /\ GetRaw(items, k, FALSE, now) = GetRaw(last.before, k, FALSE, now)
        /\ ~Stored(last.before, k, now) =>
              /\ items[k].Object = NilBytes
              /\ GetRaw(items, k, FALSE, now) = Absent

\* C13 witness: a Touch with a TTL of a key that was stored without one and
\* held bytes
C13_Witness ==
    /\ last.op = "Touch" /\ last.ttl > 0
    /\ Stored(last.before, last.key, now)
    /\ last.before[last.key].Expiration = 0
    /\ last.before[last.key].Object = Bytes(<<5>>)
    /\ items[last.key].Expiration = now + Seconds(last.ttl)

\* the first n elements of s, all of s when it has fewer
FirstN(s, n) == SubSeq(s, 1, IF n < Len(s) THEN n ELSE Len(s))

\* C14: forward or reverse, an Enumerate whose callback returns false on its
\* n-th call calls it n times and no more, or as often as there are entries
\* when there are fewer than n; it returns no error, and what it delivered is
\* the first entries of what it delivers, for the same iteration order, to a
\* callback that always returns true
C14_StopIsPrefix ==
    last.op = "Enumerate" =>
        LET full == EnumerateRaw(last.before, last.prefix, last.seek, last.batchSize,
                                 last.onlyKeys, last.reverse, last.order, 0, now).out
        IN  /\ last.err = NoErr
            /\ last.stopAt > 0 => last.out = FirstN(full, last.stopAt)
            /\ \A n \in 1..Cardinality(Keys) :
                  LET r == EnumerateRaw(last.before, last.prefix, last.seek,
                                        last.batchSize, last.onlyKeys, last.reverse,
                                        last.order, n, now)
                  IN  r.err = NoErr /\ r.out = FirstN(full, n)

\* C14 witness: a reverse Enumerate over three matching keys whose callback
\* returns false on its second call, and is not called for the third entry
C14_Witness ==
    /\ last.op = "Enumerate" /\ last.reverse /\ last.stopAt = 2
    /\ Len(last.out) = 2
    /\ Cardinality(Candidates(last.before, last.prefix, last.seek, now)) = 3

\* the carry into byte i of the sum of two 8-byte big-endian numbers
RECURSIVE CarryInto(_, _, _)
CarryInto(a, b, i) ==
    IF i >= 8 THEN 0 ELSE (a[i + 1] + b[i + 1] + CarryInto(a, b, i + 1)) \div 256

\* a + b modulo 2^64 on 8-byte big-endian numbers
SumBytes(a, b) == [i \in 1..8 |-> (a[i] + b[i] + CarryInto(a, b, i)) % 256]

\* C15: Increment takes for the counter the first 8 bytes, big-endian, of the
\* value stored under the key when it has 8 bytes or more, and `initial` when
\* the key is not stored or its value is shorter; it returns that counter,
\* with no error, and leaves under the key the 8 bytes of counter + delta
\* modulo 2^64, expiring as ttlSeconds says
C15_IncrementNumerics ==
    last.op = "Increment" =>
        LET k == last.key
            v == StoredValue(last.before, k, now)
            old == IF Len(v.bytes) >= 8 THEN SubSeq(v.bytes, 1, 8)
                   ELSE PutUint64(last.initial)
        IN  /\ last.err = NoErr
            /\ PutUint64(last.prev) = old
            /\ last.prev = BigEndianUint64(old)
            /\ k \in DOMAIN items
            /\ Len(items[k].Object.bytes) = 8
            /\ items[k] = Item(Bytes(SumBytes(old, PutUint64(last.delta))),
                               Deadline(last.ttl, now))

\* C15 witness: an Increment by 1, with a TTL, of a key holding nine bytes of
\* which the first eight are 255: it returns -1 and the counter wraps to 0
C15_Witness ==
    /\ last.op = "Increment" /\ last.delta = Int64(1) /\ last.ttl > 0
    /\ Stored(last.before, last.key, now)
    /\ Len(last.before[last.key].Object.bytes) = 9
    /\ last.prev = Int64(-1)
    /\ items[last.key].Object = Bytes(EightBytes(0))
    /\ items[last.key].Expiration > 0

\* the mutator that sets Ttl = ttl and commits
TtlMutator(ttl) ==
    [kind |-> "assign", commit |-> TRUE, setValue |-> FALSE, Value |-> NilBytes,
     setTtl |-> TRUE, Ttl |-> ttl, setKey |-> FALSE, Key |-> <<>>,
     setVersion |-> FALSE, Version |-> 0]

\* the mutator that sets Value = v and Ttl = ttl and commits
ValueTtlMutator(v, ttl) == [TtlMutator(ttl) EXCEPT !.setValue = TRUE, !.Value = v]

\* C16: run from the same map at the same instant, Touch(k, ttl) leaves the
\* map that Update(k, Ttl := ttl; commit) leaves, Set(k, v, ttl) and
\* CompareAndSet(k, v, ttl, version) leave the map that
\* Update(k, Value := v; Ttl := ttl; commit) leaves, and Increment leaves the
\* map that UpdateRaw leaves with Increment's callback: the same keys, each
\* with the same value and the same expiration
C16_MutationsAreUpdates ==
    /\ last.op = "Touch" =>
          items = UpdateRaw(last.before, last.key, TtlMutator(last.ttl), now).items
    /\ last.op \in {"Set", "CompareAndSet"} =>
          items = UpdateRaw(last.before, last.key,
                            ValueTtlMutator(last.value, last.ttl), now).items
    /\ last = NoCall =>
          \A k \in Keys, ttl \in TTLs :
             /\ TouchRaw(items, k, ttl, now)
                   = UpdateRaw(items, k, TtlMutator(ttl), now).items
             /\ \A v \in Values :
                   LET u == UpdateRaw(items, k, ValueTtlMutator(v, ttl), now) IN
                   /\ u.err = NoErr
                   /\ SetRaw(items, k, v, ttl, now) = u.items
                   /\ \A ver \in Versions :
                         CompareAndSetRaw(items, k, v, ttl, ver, now).items = u.items
             /\ \A i \in Initials, d \in Deltas :
                   IncrementRaw(items, k, i, d, ttl, now).items
                      = UpdateRaw(items, k, incrementer(i, d, ttl), now).items

\* C16 witness: a Set of an empty value, with a TTL, over a key that held
\* bytes and had no expiration, while the other key is expired and unswept
C16_Witness ==
    /\ last.op = "Set" /\ last.value = Bytes(<<>>) /\ last.ttl > 0
    /\ Stored(last.before, last.key, now)
    /\ last.before[last.key] = Item(Bytes(<<5>>), 0)
    /\ \E k \in DOMAIN items : Expired(items[k], now)

\* the keys an Enumerate of map c delivers to a callback that always returns
\* true, for a prefix, a seek and an iteration order
Delivered(c, prefix, seek, order, t) ==
    LET out == EnumerateRaw(c, prefix, seek, 0, TRUE, FALSE, order, 0, t).out
    IN  { out[i].Key : i \in 1..Len(out) }

\* C17: Compact, whatever discardRatio, returns no error and removes from the
\* map the expired entries and nothing else; every Get, required or not, and
\* the keys every Enumerate delivers are after it what they were before it
C17_CompactKeepsReads ==
    last.op = "Compact" =>
        /\ last.err = NoErr
        /\ DOMAIN items = { k \in DOMAIN last.before : ~Expired(last.before[k], now) }
        /\ \A k \in DOMAIN items : items[k] = last.before[k]
        /\ \A d \in DiscardRatios : Compact(last.before, d, now) = items
        /\ \A k \in Keys, r \in BOOLEAN :
              GetRaw(items, k, r, now) = GetRaw(last.before, k, r, now)
        /\ DOMAIN cacheItems(items, now) = DOMAIN cacheItems(last.before, now)
        /\ \A p \in Prefixes, sk \in EnumSeeks, o \in Orders(DOMAIN cacheItems(items, now)) :
              Delivered(items, p, sk, o, now) = Delivered(last.before, p, sk, o, now)

\* C17 witness: a Compact with a discard ratio that is not 0 removes an
\* expired entry and leaves one that has time left
C17_Witness ==
    /\ last.op = "Compact" /\ last.discardRatio # 0
    /\ \E k \in DOMAIN last.before : k \notin DOMAIN items
    /\ \E k \in DOMAIN items : items[k].Expiration > 0

\* C18: once an Update of key k has committed with a mutator that does not
\* assign Ttl, and until k is next written or deleted, k is stored with no
\* expiration and is read at every later instant, past the expiration it had
\* before the Update too; an Increment of a key that has an expiration
\* leaves it expiring as the Increment's ttlSeconds says
C18_UpdateDropsTtl ==
    /\ \A k \in Keys :
          (written[k].updated /\ ~written[k].setTtl) =>
              /\ Stored(items, k, now)
              /\ items[k].Expiration = 0
              /\ GetRaw(items, k, FALSE, now) = [val |-> items[k].Object, err |-> NoErr]
    /\ last = NoCall =>
          \A k \in DOMAIN items, ttl \in TTLs :
              IncrementRaw(items, k, Int64(0), Int64(1), ttl, now).items[k].Expiration
                 = Deadline(ttl, now)

\* C18 witness: a required Get finds a key after the expiration it had before
\* an Update that kept its value and did not assign Ttl
C18_Witness ==
    /\ last.op = "Get" /\ last.required /\ last.err = NoErr
    /\ written[last.key].updated /\ ~written[last.key].setTtl
    /\ written[last.key].was > 0
    /\ now > written[last.key].was

\* C19: Touch reads and then writes, and a Set may fall in between.  When a
\* Touch by p has read the value of a key, a Set by q has written the key
\* before p wrote, and p has then written, both calls have returned no error
\* and the key holds what p read, with the expiration of p's Touch: what q
\* set is gone
C19_TouchLosesSet ==
    \A p, q \in Procs :
        (/\ p # q
         /\ pc[p] = "returned" /\ loc[p].op = "Touch"
         /\ pc[q] = "returned" /\ loc[q].op = "Set"
         /\ loc[q].key = loc[p].key
         /\ p \in loc[q].during
         /\ q \in loc[p].after) =>
            /\ loc[p].err = NoErr /\ loc[q].err = NoErr
            /\ loc[p].key \in DOMAIN items
            /\ items[loc[p].key].Object = loc[p].value
            /\ items[loc[p].key].Expiration \in
                  { Deadline(loc[p].ttl, t) : t \in 0..now }

\* C19 witness: the key held 5; a Touch read it, a Set wrote 6 and returned,
\* the Touch wrote and returned, and the key holds 5
C19_Witness ==
    \E p, q \in Procs :
        /\ pc[p] = "returned" /\ loc[p].op = "Touch"
        /\ pc[q] = "returned" /\ loc[q].op = "Set"
        /\ p \in loc[q].during /\ q \in loc[p].after
        /\ loc[p].value = Bytes(<<5>>)
        /\ loc[q].value = Bytes(<<6>>)
        /\ items[ConcKey].Object = Bytes(<<5>>)
        /\ GetRaw(items, ConcKey, TRUE, now).val = Bytes(<<5>>)

\* key k is in both maps with the same value and expiration, or in neither
SameEntry(c1, c2, k) ==
    /\ k \in DOMAIN c1 <=> k \in DOMAIN c2
    /\ k \in DOMAIN c1 => c1[k] = c2[k]

\* C20: Set, CompareAndSet, Touch, Remove, Increment and Update of key k
\* leave every other key with the value and the expiration it had, or out of
\* the map if it was not in it, also when Update's mutator puts another key
\* in entry.Key; DropWithPrefix(p) leaves so every key that does not start
\* with p; Get and Enumerate leave the whole map as it was
C20_OnlyNamedKeys ==
    /\ last.op \in {"Set", "CompareAndSet", "Touch", "Remove", "Increment", "Update"} =>
          \A kk \in Keys \ {last.key} : SameEntry(items, last.before, kk)
    /\ last.op = "DropWithPrefix" =>
          \A kk \in Keys :
              ~StartsWith(kk, last.prefix) => SameEntry(items, last.before, kk)
    /\ last.op \in {"Get", "Enumerate"} => items = last.before

\* C20 witness: a committed Update of one key whose mutator wrote another
\* key, one that is stored with an expiration, into entry.Key
C20_Witness ==
    /\ last.op = "Update" /\ last.err = NoErr
    /\ last.m.setKey /\ last.m.Key # last.key
    /\ Stored(last.before, last.m.Key, now)
    /\ last.before[last.m.Key].Expiration > 0
    /\ items[last.key] # last.before[last.m.Key]

=============================================================================
